---- MODULE Spec2Model ----
(***************************************************************************)
(* State-machine model of the 4-track tape looper: the Track class         *)
(* (recording, decoding, playback voices, speed/reverse, mute/fader) and   *)
(* the Recorder operations that drive the tracks (transport, file load,    *)
(* solo).  Every handler of the program runs to completion on the one UI   *)
(* thread, so each handler, and each continuation after an await, is one   *)
(* atomic action.                                                          *)
(*                                                                         *)
(* Units: gains are in tenths (8 = 0.8), playback rates in hundredths      *)
(* (100 = 1.0x), durations in sample frames of the context's rate.         *)
(***************************************************************************)
EXTENDS Integers, Sequences, FiniteSets, TLC

\* ---------------------------------------------------------------- bounds
NumFiles == 2          \* distinct decodable inputs (files / recordings)
MaxTime == 1           \* the audio clock ctx.currentTime runs 0..MaxTime
MaxPendingEnded == 1   \* queued, undelivered 'ended' events per track
MaxPendingLoads == 1   \* loadFileToTrack calls awaiting their decode, per track
MaxPendingSetups == 1  \* setAudioSource calls awaiting their stream, per source type
MaxRenders == 1        \* exportMix calls awaiting their offline render
MaxFrames == 2         \* frames of a buffer handed to bufferToWav
MaxInflight == 1       \* synthesis requests posted to the worker and unanswered
MaxBurst == 2          \* cache-missing setMasterReverbSize calls in one burst
MaxDropoutTimers == 2  \* dropout timeouts pending at once

\* ------------------------------------------------------ program constants
NumTracks == 4
InitLoopLength == 4
UnmutedGain == 8
RateUnit == 100
MaxRate == 4
ExportSampleRate == 44100
ExportChannels == 2
SampleUnit == 2
Int16Max == 32767
CacheCapacity == 5
ReverbDebounce == 500
InitialReverbSize == 700

Tracks == 0 .. (NumTracks - 1)

\* Tracks that the per-track operations of Spec are applied to; the
\* Recorder-wide operations always run over all of Tracks.
PlayTracks == {0}

\* Inputs of the handlers.
SpeedValues == {-100, -50, 0, 50, 100}
DirectionValues == {-100, 0, 100}
LegacyValues == {50, 100}
FaderValues == {0, 5, 10}
Modes == {"normal", "loop"}
Files == 1 .. NumFiles
SourceTypes == {"none", "microphone", "tab"}

Abs(x) == IF x < 0 THEN -x ELSE x

Min(S) == CHOOSE x \in S : \A y \in S : x <= y

Max(S) == CHOOSE x \in S : \A y \in S : y <= x

\* ------------------------------------------------------------- audio data
\* The PCM data the platform decoder yields for input f: one sequence of
\* samples per channel.  Inputs differ in channel count and length, and no
\* channel is a palindrome.
FileChannels(f) == 1 + ((f + 1) % 2)

FileLength(f) == f + 1

DecodeAudioData(f) ==
    [c \in 1 .. FileChannels(f) |-> [i \in 1 .. FileLength(f) |-> 10 * c + i]]

NoBuffer == [id |-> 0, data |-> << >>]

NoSource == [vid |-> 0, buffer |-> 0, loop |-> FALSE, rate |-> 0]

NumberOfChannels(b) == Len(b.data)

BufferLength(b) == IF b.data = << >> THEN 0 ELSE Len(b.data[1])

\* AudioBuffer.duration = length / sampleRate, in frames of the context rate.
Duration(b) == BufferLength(b)

\* Variant: the copy loop reads originalData[i].
CreateReversedBufferUnreversed(buffer, newId) ==
    [id   |-> newId,
     data |-> [channel \in 1 .. NumberOfChannels(buffer) |->
                 [i \in 1 .. BufferLength(buffer) |-> buffer.data[channel][i]]]]

\* Track.createReversedBuffer: a new buffer of the same shape whose sample i
\* is the original's sample length-1-i (0-based), on every channel.
CreateReversedBuffer(buffer, newId) ==
    [id   |-> newId,
     data |-> [channel \in 1 .. NumberOfChannels(buffer) |->
                 [i \in 1 .. BufferLength(buffer) |->
                    buffer.data[channel][BufferLength(buffer) + 1 - i]]]]

\* Object identity of a new AudioBuffer: an id no live reference holds.
LiveBufferIds(tr) == {tr.audioBuffer.id, tr.reversedBuffer.id, tr.source.buffer}

FreshId(used) == Min((1 .. (Cardinality(used) + 1)) \ used)

\* Math.pow(4, n / 100) in hundredths, for n a multiple of 50 in 0..100,
\* where the power is a whole number of units:
\* r = RateUnit * 4^(n/100)  iff  r^2 = RateUnit^2 * 4^(n/50).
Pow4(n) ==
    CHOOSE r \in {k * RateUnit : k \in 1 .. MaxRate} :
        r * r = RateUnit * RateUnit * (4 ^ (n \div 50))

\* ------------------------------------------------------------ WAV encoding
\* Samples handed to bufferToWav are in units of 1/SampleUnit (2 = 1.0), so
\* that values inside, on and outside the range [-1,1] occur.
WavSampleValues == {-4, -2, -1, 1, 3}

WavSampleRates == {8000, ExportSampleRate}

\* DataView.setUint32(offset, x, true) and setUint16(offset, x, true): the
\* bytes of x, least significant first (x is below 2^31 here).
Uint32LE(x) == [k \in 1 .. 4 |-> (x \div (256 ^ (k - 1))) % 256]

Uint16LE(x) == [k \in 1 .. 2 |-> ((x % 65536) \div (256 ^ (k - 1))) % 256]

\* DataView.setInt16(offset, v, true): v is truncated toward zero and
\* wrapped into 16 bits (two's complement), least significant byte first.
TruncDiv(a, b) == IF a >= 0 THEN a \div b ELSE -((-a) \div b)

Int16LE(num, den) == Uint16LE(TruncDiv(num, den) % 65536)

\* writeString(offset, string): the character codes of the four tags.
Ascii(tag) ==
    CASE tag = "RIFF" -> <<82, 73, 70, 70>>
      [] tag = "WAVE" -> <<87, 65, 86, 69>>
      [] tag = "fmt " -> <<102, 109, 116, 32>>
      [] tag = "data" -> <<100, 97, 116, 97>>

\* The 44 header bytes bufferToWav writes for a buffer of the given shape.
WavHeader(frames, channels, sampleRate) ==
    LET length == frames * channels * 2
    IN Ascii("RIFF") \o Uint32LE(36 + length) \o Ascii("WAVE")
       \o Ascii("fmt ") \o Uint32LE(16) \o Uint16LE(1) \o Uint16LE(channels)
       \o Uint32LE(sampleRate) \o Uint32LE(sampleRate * channels * 2)
       \o Uint16LE(channels * 2) \o Uint16LE(16)
       \o Ascii("data") \o Uint32LE(length)

\* Variant: the sample is scaled without being clamped first.
WavSampleUnclamped(sample) == Int16LE(sample * Int16Max, SampleUnit)

\* Math.max(-1, Math.min(1, sample)) * 0x7FFF written by setInt16.
WavSample(sample) ==
    LET clampedSample == IF sample > SampleUnit THEN SampleUnit
                         ELSE IF sample < -SampleUnit THEN -SampleUnit
                         ELSE sample
    IN Int16LE(clampedSample * Int16Max, SampleUnit)

\* The interleaved 16-bit PCM data: frame by frame, channel by channel.
WavData(buffer) ==
    LET channels == NumberOfChannels(buffer)
    IN [k \in 1 .. (BufferLength(buffer) * channels * 2) |->
          LET n == (k - 1) \div 2
              i == n \div channels
              channel == n % channels
          IN WavSample(buffer.data[channel + 1][i + 1])[((k - 1) % 2) + 1]]

\* Recorder.bufferToWav(buffer)
BufferToWav(buffer) ==
    WavHeader(BufferLength(buffer), NumberOfChannels(buffer), buffer.sampleRate)
        \o WavData(buffer)

\* ------------------------------------------------------------------ state
\* tracks            : the four Track objects (fields of NewTrack below)
\* recorderIsPlaying : Recorder.isPlaying, the transport flag
\* now               : ctx.currentTime
\* last              : history of the handler that ran last, with its track
\*                     and argument (the decoded input for a decode, the knob
\*                     value for a speed change)
\*
\* Per track, beside the fields of the class: stopEvent and decoding are the
\* position of the recorder's onstop handler, pendingLoads the loadFileToTrack
\* calls suspended at their await, active the voices that currently sound
\* (started and neither stopped nor run out), pendingEnded the 'ended' events
\* queued for voices that were stopped or ran out.
\*
\* input             : the Recorder's input selection: audioSourceType, the
\*                     streams held in micStream ("null", "mic", "tab") and
\*                     activeStream ("null", "display"), the source node in
\*                     microphone, and per source type the setAudioSource
\*                     calls suspended at their await (pending)
\* export            : the exportMix calls suspended at startRendering, each
\*                     with the frame count and the sources of its offline
\*                     graph (rendering), and the header of the file that
\*                     was downloaded last (file)
\* wav               : a buffer handed to bufferToWav and the bytes returned
\* reverb            : the master reverb: masterReverbSize and the decay
\*                     times of requests in hundredths of a second; buffer
\*                     is masterReverb.buffer; cache is reverbCache in
\*                     insertion order; timers are the pending setTimeout
\*                     callbacks with the milliseconds elapsed since they
\*                     were set, reverbSizeTimeout the handle stored last;
\*                     inflight are the requests posted to the worker and
\*                     not yet answered; burst is the history of the current
\*                     run of cache-missing calls (their number, the decay
\*                     of the latest, the milliseconds since it, and the
\*                     requests dispatched since the run began)
\* tape              : the CassetteTapeBus: bypassed, dropoutIntensity (in
\*                     percent), dropoutSchedulerId (0 for null), the
\*                     pending dropout timeouts (timers, each with the
\*                     least delay it was set with, in ms), and the targets
\*                     of the wet and bypass gains (in percent)
VARIABLES tracks, recorderIsPlaying, now, last, input, export, wav, reverb, tape

vars == <<tracks, recorderIsPlaying, now, last, input, export, wav, reverb, tape>>

\* The Recorder state outside the tracks, the transport flag and the clock.
others == <<input, export, wav, reverb, tape>>

\* Track.createAudioNodes and setupTapeEffects: the parameters of the
\* processing chain; gains and the ratio in tenths, EQ gains and the
\* threshold in dB.
NewParams ==
    [trimGain       |-> 5,
     gainBoost      |-> 10,
     eqLow          |-> 0,
     eqMid          |-> 0,
     eqHigh         |-> 0,
     threshold      |-> -24,
     ratio          |-> 40,
     makeupGain     |-> 10,
     reverbSendGain |-> 0]

\* Track constructor and createAudioNodes.
NewTrack ==
    [isRecording   |-> FALSE,
     mediaRecorder |-> "null",
     stopEvent     |-> FALSE,
     decoding      |-> FALSE,
     pendingLoads  |-> 0,
     audioBuffer   |-> NoBuffer,
     reversedBuffer |-> NoBuffer,
     source        |-> NoSource,
     active        |-> {},
     pendingEnded  |-> 0,
     isPlaying     |-> FALSE,
     isMuted       |-> FALSE,
     isSolo        |-> FALSE,
     mode          |-> "loop",
     loopLength    |-> InitLoopLength,
     playbackRate  |-> RateUnit,
     isReversed    |-> FALSE,
     startTime     |-> 0,
     fader         |-> UnmutedGain,
     params        |-> NewParams]

Label(op, t, arg) == [op |-> op, t |-> t, arg |-> arg]

\* Recorder constructor: no input selected, no stream held.
NewInput ==
    [audioSourceType |-> "none",
     micStream       |-> "null",
     activeStream    |-> "null",
     microphone      |-> FALSE,
     pending         |-> [k \in {"microphone", "tab"} |-> 0]]

\* No export has been started and no file downloaded.
NewExport == [rendering |-> << >>, file |-> << >>]

\* The buffers bufferToWav is applied to: mono and stereo, of 1..MaxFrames
\* frames, at either sample rate.
WavBuffers ==
    UNION {[id : {1},
            sampleRate : WavSampleRates,
            data : [1 .. c -> [1 .. n -> WavSampleValues]]] :
           c \in 1 .. ExportChannels, n \in 1 .. MaxFrames}

NoWavBuffer == [id |-> 0, sampleRate |-> 0, data |-> << >>]

NewWav == [buffer |-> NoWavBuffer, bytes |-> << >>]

\* CassetteTapeBus constructor and initDefaults.
NewTape ==
    [bypassed           |-> FALSE,
     dropoutSchedulerId |-> 0,
     dropoutIntensity   |-> 0,
     timers             |-> {},
     wetGain            |-> 100,
     bypassGain         |-> 0]

\* An impulse response: made on the main thread or by the worker, for a
\* decay and a length in hundredths of a second.
Impulse(by, decay, length) == [by |-> by, decay |-> decay, length |-> length]

NoBurst == [calls |-> 0, decay |-> 0, idle |-> ReverbDebounce, dispatched |-> 0]

\* Recorder.createMasterBus: the short initial impulse is installed, the
\* cache is empty and the request for the default size is posted.
NewReverb ==
    [masterReverbSize  |-> InitialReverbSize,
     buffer            |-> Impulse("main", 50, 50),
     cache             |-> << >>,
     timers            |-> {},
     reverbSizeTimeout |-> 0,
     inflight          |-> <<InitialReverbSize>>,
     burst             |-> NoBurst]

Init ==
    /\ tracks = [t \in Tracks |-> NewTrack]
    /\ recorderIsPlaying = FALSE
    /\ now = 0
    /\ last = Label("init", -1, 0)
    /\ input = NewInput
    /\ export = NewExport
    /\ wav = NewWav
    /\ reverb = NewReverb
    /\ tape = NewTape

\* --------------------------------------------------- Track methods (pure)
\* Track.stop: stop and release the voice held in this.source, if any.
\* Stopping a voice that still sounds queues its 'ended' event.
TrackStop(tr) ==
    IF tr.source # NoSource
    THEN [tr EXCEPT !.active = @ \ {tr.source.vid},
                    !.pendingEnded = IF tr.source.vid \in tr.active THEN @ + 1 ELSE @,
                    !.source = NoSource,
                    !.isPlaying = FALSE]
    ELSE [tr EXCEPT !.isPlaying = FALSE]

\* Variant: play() without its call of this.stop().
TrackPlayNoStop(tr, when, currentTime) ==
    IF tr.audioBuffer = NoBuffer \/ tr.isPlaying
    THEN tr
    ELSE LET buf == IF tr.isReversed /\ tr.reversedBuffer # NoBuffer
                    THEN tr.reversedBuffer ELSE tr.audioBuffer
             voice == [vid    |-> FreshId(tr.active),
                       buffer |-> buf.id,
                       loop   |-> (tr.mode = "loop"),
                       rate   |-> Abs(tr.playbackRate)]
         IN [tr EXCEPT !.source = voice,
                       !.active = @ \cup {voice.vid},
                       !.startTime = IF when # 0 THEN when ELSE currentTime,
                       !.isPlaying = TRUE]

\* Variant: play() that returns early only when there is no buffer.
TrackPlayRestarts(tr, when, currentTime) ==
    IF tr.audioBuffer = NoBuffer
    THEN tr
    ELSE LET s == TrackStop(tr)
             buf == IF s.isReversed /\ s.reversedBuffer # NoBuffer
                    THEN s.reversedBuffer ELSE s.audioBuffer
             voice == [vid    |-> FreshId(s.active),
                       buffer |-> buf.id,
                       loop   |-> (s.mode = "loop"),
                       rate   |-> Abs(s.playbackRate)]
         IN [s EXCEPT !.source = voice,
                      !.active = @ \cup {voice.vid},
                      !.startTime = IF when # 0 THEN when ELSE currentTime,
                      !.isPlaying = TRUE]

\* Track.play(when): a new voice on the buffer of the current direction.
TrackPlay(tr, when, currentTime) ==
    IF tr.audioBuffer = NoBuffer \/ tr.isPlaying
    THEN tr
    ELSE LET s == TrackStop(tr)
             buf == IF s.isReversed /\ s.reversedBuffer # NoBuffer
                    THEN s.reversedBuffer ELSE s.audioBuffer
             startTime == IF when # 0 THEN when ELSE currentTime
             voice == [vid    |-> FreshId(s.active),
                       buffer |-> buf.id,
                       loop   |-> (s.mode = "loop"),
                       rate   |-> Abs(s.playbackRate)]
         IN [s EXCEPT !.source = voice,
                      !.active = @ \cup {voice.vid},
                      !.startTime = startTime,
                      !.isPlaying = TRUE]

\* Variant: clear() that drops the buffers without stopping.
TrackClearNoStop(tr) ==
    [tr EXCEPT !.audioBuffer = NoBuffer, !.reversedBuffer = NoBuffer]

\* Track.clear
TrackClear(tr) ==
    [TrackStop(tr) EXCEPT !.audioBuffer = NoBuffer, !.reversedBuffer = NoBuffer]

\* Variant: the centre position resets the rate but not the direction.
TrackSetSpeedKeepsDirection(tr, normalizedValue, currentTime) ==
    LET wasPlaying == tr.isPlaying
        s == IF normalizedValue = 0
             THEN [tr EXCEPT !.playbackRate = RateUnit]
             ELSE IF normalizedValue > 0
             THEN [tr EXCEPT !.playbackRate = Pow4(normalizedValue),
                             !.isReversed = FALSE]
             ELSE [tr EXCEPT !.playbackRate = Pow4(Abs(normalizedValue)),
                             !.isReversed = TRUE]
        needsBufferSwitch ==
            wasPlaying /\
              (\/ s.isReversed /\ s.source.buffer = s.audioBuffer.id
               \/ ~s.isReversed /\ s.source.buffer = s.reversedBuffer.id)
    IN IF s.source # NoSource /\ s.isPlaying
       THEN IF needsBufferSwitch
            THEN TrackPlay(TrackStop(s), 0, currentTime)
            ELSE [s EXCEPT !.source.rate = Abs(s.playbackRate)]
       ELSE s

\* Variant: the forward side stores the knob fraction instead of 4^fraction.
TrackSetSpeedLinear(tr, normalizedValue, currentTime) ==
    LET wasPlaying == tr.isPlaying
        s == IF normalizedValue = 0
             THEN [tr EXCEPT !.playbackRate = RateUnit, !.isReversed = FALSE]
             ELSE IF normalizedValue > 0
             THEN [tr EXCEPT !.playbackRate = normalizedValue,
                             !.isReversed = FALSE]
             ELSE [tr EXCEPT !.playbackRate = Pow4(Abs(normalizedValue)),
                             !.isReversed = TRUE]
        needsBufferSwitch ==
            wasPlaying /\
              (\/ s.isReversed /\ s.source.buffer = s.audioBuffer.id
               \/ ~s.isReversed /\ s.source.buffer = s.reversedBuffer.id)
    IN IF s.source # NoSource /\ s.isPlaying
       THEN IF needsBufferSwitch
            THEN TrackPlay(TrackStop(s), 0, currentTime)
            ELSE [s EXCEPT !.source.rate = Abs(s.playbackRate)]
       ELSE s

\* Track.setSpeed(normalizedValue)
TrackSetSpeed(tr, normalizedValue, currentTime) ==
    LET wasPlaying == tr.isPlaying
        s == IF normalizedValue = 0
             THEN [tr EXCEPT !.playbackRate = RateUnit, !.isReversed = FALSE]
             ELSE IF normalizedValue > 0
             THEN [tr EXCEPT !.playbackRate = Pow4(normalizedValue),
                             !.isReversed = FALSE]
             ELSE [tr EXCEPT !.playbackRate = Pow4(Abs(normalizedValue)),
                             !.isReversed = TRUE]
        needsBufferSwitch ==
            wasPlaying /\
              (\/ s.isReversed /\ s.source.buffer = s.audioBuffer.id
               \/ ~s.isReversed /\ s.source.buffer = s.reversedBuffer.id)
    IN IF s.source # NoSource /\ s.isPlaying
       THEN IF needsBufferSwitch
            THEN TrackPlay(TrackStop(s), 0, currentTime)
            ELSE [s EXCEPT !.source.rate = Abs(s.playbackRate)]
       ELSE s

\* Track.setSpeedLegacy(value)
TrackSetSpeedLegacy(tr, value) ==
    LET s == [tr EXCEPT !.playbackRate = value, !.isReversed = FALSE]
    IN IF s.source # NoSource THEN [s EXCEPT !.source.rate = value] ELSE s

\* Track.setMode(mode)
TrackSetMode(tr, mode, currentTime) ==
    LET s == [tr EXCEPT !.mode = mode]
    IN IF s.isPlaying THEN TrackPlay(TrackStop(s), 0, currentTime) ELSE s

\* Variant: unmuting leaves the fader gain as it is.
TrackSetMuteKeepsFader(tr, muted) ==
    [tr EXCEPT !.isMuted = muted, !.fader = IF muted THEN 0 ELSE @]

\* Track.setMute(muted)
TrackSetMute(tr, muted) ==
    [tr EXCEPT !.isMuted = muted, !.fader = IF muted THEN 0 ELSE UnmutedGain]

\* Track.setFader(value)
TrackSetFader(tr, value) == [tr EXCEPT !.fader = value]

\* Track.setSolo(solo)
TrackSetSolo(tr, solo) == [tr EXCEPT !.isSolo = solo]

\* Track.setTrimGain(value), value in tenths
TrackSetTrimGain(tr, value) == [tr EXCEPT !.params.trimGain = value]

\* Track.setGainBoost(value), value in tenths
TrackSetGainBoost(tr, value) == [tr EXCEPT !.params.gainBoost = value * 2]

\* Track.setEQLow(value), setEQMid(value), setEQHigh(value), value in dB
TrackSetEQLow(tr, value) == [tr EXCEPT !.params.eqLow = value]

TrackSetEQMid(tr, value) == [tr EXCEPT !.params.eqMid = value]

TrackSetEQHigh(tr, value) == [tr EXCEPT !.params.eqHigh = value]

\* Track.setLA2APeakReduction(amount), amount in tenths
TrackSetLA2APeakReduction(tr, amount) ==
    [tr EXCEPT !.params.threshold = -10 - ((amount * 30) \div 10),
               !.params.ratio = 30 + (amount * 5)]

\* Track.setLA2AGain(amount), amount a whole number: 20 * amount dB of
\* makeup, a linear gain of 10^amount.
TrackSetLA2AGain(tr, amount) == [tr EXCEPT !.params.makeupGain = 10 * (10 ^ amount)]

\* Track.setReverbSend(amount), amount in tenths
TrackSetReverbSend(tr, amount) == [tr EXCEPT !.params.reverbSendGain = amount]

\* Variant: the new buffer is installed without updating loopLength.
InstallBufferKeepsLoopLength(tr, f) ==
    LET idA == FreshId(LiveBufferIds(tr))
        audioBuffer == [id |-> idA, data |-> DecodeAudioData(f)]
        idR == FreshId(LiveBufferIds(tr) \cup {idA})
    IN [tr EXCEPT !.audioBuffer = audioBuffer,
                  !.reversedBuffer = CreateReversedBuffer(audioBuffer, idR)]

\* The body of the try block of Track.loadAudioFromBlob after a successful
\* decode; Recorder.loadFileToTrack performs the same three assignments.
InstallBuffer(tr, f) ==
    LET idA == FreshId(LiveBufferIds(tr))
        audioBuffer == [id |-> idA, data |-> DecodeAudioData(f)]
        idR == FreshId(LiveBufferIds(tr) \cup {idA})
    IN [tr EXCEPT !.audioBuffer = audioBuffer,
                  !.loopLength = Duration(audioBuffer),
                  !.reversedBuffer = CreateReversedBuffer(audioBuffer, idR)]

\* ------------------------------------------------------------ the actions
\* Every step keeps the queue of undelivered 'ended' events within its bound.
Fits(newTracks) == \A t \in Tracks : newTracks[t].pendingEnded <= MaxPendingEnded

Step(newTracks, op, t, arg) ==
    /\ Fits(newTracks)
    /\ tracks' = newTracks
    /\ last' = Label(op, t, arg)
    /\ UNCHANGED others

Play(t) ==
    /\ Step([tracks EXCEPT ![t] = TrackPlay(@, 0, now)], "play", t, 0)
    /\ UNCHANGED <<recorderIsPlaying, now>>

Stop(t) ==
    /\ Step([tracks EXCEPT ![t] = TrackStop(@)], "stop", t, 0)
    /\ UNCHANGED <<recorderIsPlaying, now>>

\* Variant: clear() on one track clears every track.
ClearClearsAll(t) ==
    /\ Step([u \in Tracks |-> TrackClear(tracks[u])], "clear", t, 0)
    /\ UNCHANGED <<recorderIsPlaying, now>>

Clear(t) ==
    /\ Step([tracks EXCEPT ![t] = TrackClear(@)], "clear", t, 0)
    /\ UNCHANGED <<recorderIsPlaying, now>>

SetSpeed(t, v) ==
    /\ Step([tracks EXCEPT ![t] = TrackSetSpeed(@, v, now)], "setSpeed", t, v)
    /\ UNCHANGED <<recorderIsPlaying, now>>

SetSpeedLegacy(t, v) ==
    /\ Step([tracks EXCEPT ![t] = TrackSetSpeedLegacy(@, v)], "setSpeedLegacy", t, v)
    /\ UNCHANGED <<recorderIsPlaying, now>>

SetMode(t, m) ==
    /\ Step([tracks EXCEPT ![t] = TrackSetMode(@, m, now)], "setMode", t, 0)
    /\ UNCHANGED <<recorderIsPlaying, now>>

SetMute(t, muted) ==
    /\ Step([tracks EXCEPT ![t] = TrackSetMute(@, muted)], "setMute", t,
            IF muted THEN 1 ELSE 0)
    /\ UNCHANGED <<recorderIsPlaying, now>>

SetFader(t, value) ==
    /\ Step([tracks EXCEPT ![t] = TrackSetFader(@, value)], "setFader", t, value)
    /\ UNCHANGED <<recorderIsPlaying, now>>

SetTrimGain(t, value) ==
    /\ Step([tracks EXCEPT ![t] = TrackSetTrimGain(@, value)], "setTrimGain", t, value)
    /\ UNCHANGED <<recorderIsPlaying, now>>

SetGainBoost(t, value) ==
    /\ Step([tracks EXCEPT ![t] = TrackSetGainBoost(@, value)], "setGainBoost", t, value)
    /\ UNCHANGED <<recorderIsPlaying, now>>

SetEQLow(t, value) ==
    /\ Step([tracks EXCEPT ![t] = TrackSetEQLow(@, value)], "setEQLow", t, value)
    /\ UNCHANGED <<recorderIsPlaying, now>>

SetEQMid(t, value) ==
    /\ Step([tracks EXCEPT ![t] = TrackSetEQMid(@, value)], "setEQMid", t, value)
    /\ UNCHANGED <<recorderIsPlaying, now>>

SetEQHigh(t, value) ==
    /\ Step([tracks EXCEPT ![t] = TrackSetEQHigh(@, value)], "setEQHigh", t, value)
    /\ UNCHANGED <<recorderIsPlaying, now>>

SetLA2APeakReduction(t, amount) ==
    /\ Step([tracks EXCEPT ![t] = TrackSetLA2APeakReduction(@, amount)],
            "setLA2APeakReduction", t, amount)
    /\ UNCHANGED <<recorderIsPlaying, now>>

SetLA2AGain(t, amount) ==
    /\ Step([tracks EXCEPT ![t] = TrackSetLA2AGain(@, amount)], "setLA2AGain", t, amount)
    /\ UNCHANGED <<recorderIsPlaying, now>>

SetReverbSend(t, amount) ==
    /\ Step([tracks EXCEPT ![t] = TrackSetReverbSend(@, amount)], "setReverbSend", t, amount)
    /\ UNCHANGED <<recorderIsPlaying, now>>

\* Track.startRecording(stream).  ok is the platform's outcome of creating
\* and starting the MediaRecorder: when it throws, isRecording is already set
\* and this.mediaRecorder keeps its previous value.
StartRecording(t, ok) ==
    /\ Step([tracks EXCEPT ![t] =
               IF @.isRecording THEN @
               ELSE IF ok
               THEN [@ EXCEPT !.isRecording = TRUE, !.mediaRecorder = "recording"]
               ELSE [@ EXCEPT !.isRecording = TRUE]],
            "startRecording", t, IF ok THEN 1 ELSE 0)
    /\ UNCHANGED <<recorderIsPlaying, now>>

\* Track.stopRecording: MediaRecorder.stop() on a recording recorder makes it
\* inactive and queues its stop event; on an inactive one it does nothing.
StopRecording(t) ==
    /\ Step([tracks EXCEPT ![t] =
               IF @.mediaRecorder # "null" /\ @.isRecording
                  /\ @.mediaRecorder = "recording"
               THEN [@ EXCEPT !.mediaRecorder = "inactive", !.stopEvent = TRUE]
               ELSE @],
            "stopRecording", t, 0)
    /\ UNCHANGED <<recorderIsPlaying, now>>

\* mediaRecorder.onstop up to its await: the blob is built and handed to
\* loadAudioFromBlob, which awaits the decode.
OnStop(t) ==
    /\ tracks[t].stopEvent
    /\ Step([tracks EXCEPT ![t] = [@ EXCEPT !.stopEvent = FALSE, !.decoding = TRUE]],
            "onstop", t, 0)
    /\ UNCHANGED <<recorderIsPlaying, now>>

\* loadAudioFromBlob resumes with the decoded recording f, installs it, and
\* onstop then clears isRecording.
RecordingDecoded(t, f) ==
    /\ tracks[t].decoding
    /\ Step([tracks EXCEPT ![t] =
               [InstallBuffer(@, f) EXCEPT !.decoding = FALSE, !.isRecording = FALSE]],
            "recordingDecoded", t, f)
    /\ UNCHANGED <<recorderIsPlaying, now>>

\* decodeAudioData rejects: the catch block logs, onstop clears isRecording.
RecordingDecodeFailed(t) ==
    /\ tracks[t].decoding
    /\ Step([tracks EXCEPT ![t] = [@ EXCEPT !.decoding = FALSE, !.isRecording = FALSE]],
            "recordingDecodeFailed", t, 0)
    /\ UNCHANGED <<recorderIsPlaying, now>>

\* Recorder.loadFileToTrack up to its awaits (read and decode of the file).
LoadFileToTrack(t) ==
    /\ tracks[t].pendingLoads < MaxPendingLoads
    /\ Step([tracks EXCEPT ![t].pendingLoads = @ + 1], "loadFileToTrack", t, 0)
    /\ UNCHANGED <<recorderIsPlaying, now>>

\* Variant: auto-play only while the transport is playing.
LoadFileDecodedIfTransport(t, f) ==
    /\ tracks[t].pendingLoads > 0
    /\ LET installed == [InstallBuffer(tracks[t], f) EXCEPT !.pendingLoads = @ - 1]
           played == IF ~installed.isPlaying /\ recorderIsPlaying
                     THEN TrackPlay(installed, 0, now) ELSE installed
       IN Step([tracks EXCEPT ![t] = played], "loadFileDecoded", t, f)
    /\ UNCHANGED <<recorderIsPlaying, now>>

\* Recorder.loadFileToTrack resumes with the decoded file f: installs the
\* buffers and auto-plays.
LoadFileDecoded(t, f) ==
    /\ tracks[t].pendingLoads > 0
    /\ LET installed == [InstallBuffer(tracks[t], f) EXCEPT !.pendingLoads = @ - 1]
           played == IF ~installed.isPlaying
                     THEN TrackPlay(installed, 0, now) ELSE installed
       IN Step([tracks EXCEPT ![t] = played], "loadFileDecoded", t, f)
    /\ UNCHANGED <<recorderIsPlaying, now>>

\* Variant: the catch block also stops and clears the track.
LoadFileFailedClears(t) ==
    /\ tracks[t].pendingLoads > 0
    /\ Step([tracks EXCEPT ![t] = [TrackClear(@) EXCEPT !.pendingLoads = @ - 1]],
            "loadFileFailed", t, 0)
    /\ UNCHANGED <<recorderIsPlaying, now>>

\* Reading or decoding the file rejects: the catch block alerts.
LoadFileFailed(t) ==
    /\ tracks[t].pendingLoads > 0
    /\ Step([tracks EXCEPT ![t].pendingLoads = @ - 1], "loadFileFailed", t, 0)
    /\ UNCHANGED <<recorderIsPlaying, now>>

\* The voice of a track in normal mode reaches the end of its buffer: it
\* falls silent and its 'ended' event is queued.
VoiceEnds(t) ==
    /\ tracks[t].source # NoSource
    /\ tracks[t].source.vid \in tracks[t].active
    /\ ~tracks[t].source.loop
    /\ Step([tracks EXCEPT ![t] = [@ EXCEPT !.active = @ \ {tracks[t].source.vid},
                                            !.pendingEnded = @ + 1]],
            "voiceEnds", t, 0)
    /\ UNCHANGED <<recorderIsPlaying, now>>

\* source.onended, as set in Track.play: the handler reads this.source at the
\* time it runs.  With this.source null the read throws and nothing changes.
OnEnded(t) ==
    /\ tracks[t].pendingEnded > 0
    /\ Step([tracks EXCEPT ![t] =
               LET s == [@ EXCEPT !.pendingEnded = @ - 1]
               IN IF s.source # NoSource /\ ~s.source.loop
                  THEN [s EXCEPT !.isPlaying = FALSE] ELSE s],
            "onended", t, 0)
    /\ UNCHANGED <<recorderIsPlaying, now>>

\* Recorder.play
RecorderPlay ==
    /\ IF recorderIsPlaying
       THEN Step(tracks, "recorderPlay", -1, 0) /\ UNCHANGED recorderIsPlaying
       ELSE /\ recorderIsPlaying' = TRUE
            /\ Step([t \in Tracks |->
                       IF tracks[t].audioBuffer # NoBuffer /\ ~tracks[t].isMuted
                       THEN TrackPlay(tracks[t], 0, now) ELSE tracks[t]],
                    "recorderPlay", -1, 0)
    /\ UNCHANGED now

\* Recorder.stop
RecorderStopTracks(isPlaying, trks) ==
    IF ~isPlaying THEN trks ELSE [t \in Tracks |-> TrackStop(trks[t])]

RecorderStop ==
    /\ recorderIsPlaying' = FALSE
    /\ Step(RecorderStopTracks(recorderIsPlaying, tracks), "recorderStop", -1, 0)
    /\ UNCHANGED now

\* Recorder.clearAll
ClearAll ==
    /\ recorderIsPlaying' = FALSE
    /\ Step([t \in Tracks |->
               TrackClear(RecorderStopTracks(recorderIsPlaying, tracks)[t])],
            "clearAll", -1, 0)
    /\ UNCHANGED now

\* Recorder.handleSolo(trackNumber)
HandleSoloTracks(trks, trackNumber) ==
    LET toggled == [trks EXCEPT ![trackNumber] = TrackSetSolo(@, ~@.isSolo)]
        anySolo == \E t \in Tracks : toggled[t].isSolo
    IN IF anySolo
       THEN [t \in Tracks |->
               IF ~toggled[t].isSolo THEN TrackSetMute(toggled[t], TRUE)
               ELSE toggled[t]]
       ELSE [t \in Tracks |-> TrackSetMute(toggled[t], toggled[t].isMuted)]

\* The isMuted flags of the four tracks as one number: bit t is set exactly
\* when track t is muted.
MutedBit(mask, t) == (mask \div (2 ^ t)) % 2 = 1

MutedMask(trks) ==
    CHOOSE mask \in 0 .. ((2 ^ NumTracks) - 1) :
        \A t \in Tracks : MutedBit(mask, t) <=> trks[t].isMuted

\* The argument recorded is the mute state the call found.
HandleSolo(trackNumber) ==
    /\ Step(HandleSoloTracks(tracks, trackNumber), "handleSolo", trackNumber,
            MutedMask(tracks))
    /\ UNCHANGED <<recorderIsPlaying, now>>

\* The audio clock advances.
Tick ==
    /\ now < MaxTime
    /\ now' = now + 1
    /\ UNCHANGED <<tracks, recorderIsPlaying, last>>
    /\ UNCHANGED others

\* ------------------------------------------------------- input selection
\* Track.startRecording(stream) and Track.stopRecording as functions of the
\* track, for the callers inside the Recorder.
TrackStartRecording(tr, ok) ==
    IF tr.isRecording THEN tr
    ELSE IF ok
    THEN [tr EXCEPT !.isRecording = TRUE, !.mediaRecorder = "recording"]
    ELSE [tr EXCEPT !.isRecording = TRUE]

TrackStopRecording(tr) ==
    IF tr.mediaRecorder # "null" /\ tr.isRecording /\ tr.mediaRecorder = "recording"
    THEN [tr EXCEPT !.mediaRecorder = "inactive", !.stopEvent = TRUE]
    ELSE tr

\* An action of the input selection: the tracks, transport and clock stay.
InputStep(newInput, op) ==
    /\ input' = newInput
    /\ last' = Label(op, -1, 0)
    /\ UNCHANGED <<tracks, recorderIsPlaying, now, export, wav, reverb, tape>>

\* Recorder.setAudioSource(sourceType) up to its await: the held streams are
\* stopped and dropped, the type is recorded, and for 'microphone' and 'tab'
\* the call suspends until the platform settles the stream request.
SetAudioSourceInput(inp, sourceType) ==
    LET cleaned == [inp EXCEPT !.activeStream = "null",
                               !.micStream = "null",
                               !.microphone = FALSE,
                               !.audioSourceType = sourceType]
    IN IF sourceType \in {"microphone", "tab"}
       THEN [cleaned EXCEPT !.pending[sourceType] = @ + 1]
       ELSE cleaned

SetAudioSource(sourceType) ==
    /\ sourceType \in {"microphone", "tab"} =>
           input.pending[sourceType] < MaxPendingSetups
    /\ InputStep(SetAudioSourceInput(input, sourceType), "setAudioSource")

\* setupMicrophone resumes with the stream of getUserMedia.
SetupMicrophoneResolved ==
    /\ input.pending["microphone"] > 0
    /\ InputStep([input EXCEPT !.pending["microphone"] = @ - 1,
                               !.micStream = "mic",
                               !.microphone = TRUE],
                 "setupMicrophoneResolved")

\* getUserMedia rejects: the catch block alerts and resets the type.
SetupMicrophoneFailed ==
    /\ input.pending["microphone"] > 0
    /\ InputStep([input EXCEPT !.pending["microphone"] = @ - 1,
                               !.audioSourceType = "none"],
                 "setupMicrophoneFailed")

\* setupSystemAudio resumes with a display stream that carries audio.
SetupSystemAudioResolved ==
    /\ input.pending["tab"] > 0
    /\ InputStep([input EXCEPT !.pending["tab"] = @ - 1,
                               !.micStream = "tab",
                               !.activeStream = "display",
                               !.microphone = TRUE],
                 "setupSystemAudioResolved")

\* getDisplayMedia rejects, or its stream has no audio track and the method
\* throws: the catch block alerts and resets the type.
SetupSystemAudioFailed ==
    /\ input.pending["tab"] > 0
    /\ InputStep([input EXCEPT !.pending["tab"] = @ - 1,
                               !.audioSourceType = "none"],
                 "setupSystemAudioFailed")

\* The user stops sharing the captured tab: the 'ended' listener of the held
\* display stream calls setAudioSource('none').
SharingEnded ==
    /\ input.activeStream = "display"
    /\ InputStep(SetAudioSourceInput(input, "none"), "sharingEnded")

\* Recorder.recordTrack(trackNumber)
RecordTrack(t, ok) ==
    /\ Step([tracks EXCEPT ![t] =
               IF input.micStream = "null" THEN @
               ELSE IF @.isRecording THEN TrackStopRecording(@)
               ELSE TrackStartRecording(@, ok)],
            "recordTrack", t, IF ok THEN 1 ELSE 0)
    /\ UNCHANGED <<recorderIsPlaying, now>>

\* ----------------------------------------------------------------- export
\* The longest duration among the tracks that hold a buffer, 0 without any.
MaxDuration(trks) ==
    Max({0} \cup {Duration(trks[t].audioBuffer) :
                     t \in {u \in Tracks : trks[u].audioBuffer # NoBuffer}})

\* Variant: every track with a buffer gets a source; a muted one at gain 0.
OfflineSourcesMutedAtZero(trks) ==
    {[track  |-> t,
      buffer |-> trks[t].audioBuffer,
      gain   |-> IF trks[t].isMuted THEN 0 ELSE trks[t].fader] :
     t \in {u \in Tracks : trks[u].audioBuffer # NoBuffer}}

\* The buffer sources exportMix creates in the offline context, each with
\* the gain of its trackGain node.
OfflineSources(trks) ==
    {[track  |-> t,
      buffer |-> trks[t].audioBuffer,
      gain   |-> trks[t].fader] :
     t \in {u \in Tracks : trks[u].audioBuffer # NoBuffer /\ ~trks[u].isMuted}}

\* Variant: the offline context is created before the duration is tested.
ExportMixRendersEmpty ==
    LET stopped == RecorderStopTracks(recorderIsPlaying, tracks)
        maxDuration == MaxDuration(stopped)
    IN /\ Len(export.rendering) < MaxRenders
       /\ recorderIsPlaying' = FALSE
       /\ Fits(stopped)
       /\ tracks' = stopped
       /\ export' = [export EXCEPT !.rendering =
                        Append(@, [frames  |-> maxDuration * ExportSampleRate,
                                   sources |-> OfflineSources(stopped)])]
       /\ last' = Label(IF maxDuration = 0 THEN "exportMixNoAudio" ELSE "exportMix",
                        -1, 0)
       /\ UNCHANGED <<now, input, wav, reverb, tape>>

\* Recorder.exportMix up to its await: the transport is stopped; without any
\* audio the call alerts and returns; otherwise the offline graph is built
\* and the call suspends at startRendering.
ExportMix ==
    LET stopped == RecorderStopTracks(recorderIsPlaying, tracks)
        maxDuration == MaxDuration(stopped)
    IN /\ Len(export.rendering) < MaxRenders
       /\ recorderIsPlaying' = FALSE
       /\ Fits(stopped)
       /\ tracks' = stopped
       /\ IF maxDuration = 0
          THEN /\ UNCHANGED export
               /\ last' = Label("exportMixNoAudio", -1, 0)
          ELSE /\ export' = [export EXCEPT !.rendering =
                                Append(@, [frames  |-> maxDuration * ExportSampleRate,
                                           sources |-> OfflineSources(stopped)])]
               /\ last' = Label("exportMix", -1, 0)
       /\ UNCHANGED <<now, input, wav, reverb, tape>>

\* startRendering resolves: the rendered buffer has the context's two
\* channels, frame count and rate; its WAV encoding is downloaded.
MixRendered ==
    /\ export.rendering # << >>
    /\ export' = [rendering |-> Tail(export.rendering),
                  file |-> WavHeader(Head(export.rendering).frames,
                                     ExportChannels, ExportSampleRate)]
    /\ last' = Label("mixExported", -1, 0)
    /\ UNCHANGED <<tracks, recorderIsPlaying, now, input, wav, reverb, tape>>

\* startRendering rejects: the catch block alerts, nothing is downloaded.
ExportFailed ==
    /\ export.rendering # << >>
    /\ export' = [export EXCEPT !.rendering = Tail(@)]
    /\ last' = Label("exportFailed", -1, 0)
    /\ UNCHANGED <<tracks, recorderIsPlaying, now, input, wav, reverb, tape>>

\* bufferToWav applied to the buffer at hand.
BufferToWavCall ==
    /\ wav.bytes = << >>
    /\ wav' = [wav EXCEPT !.bytes = BufferToWav(wav.buffer)]
    /\ last' = Label("bufferToWav", -1, 0)
    /\ UNCHANGED <<tracks, recorderIsPlaying, now, input, export, reverb, tape>>

\* ----------------------------------------------------------- master reverb
\* setMasterReverbSize(amount): amount is in units of 1/4450, so that the
\* decay 0.5 + amount * 44.5 is a whole number of hundredths of a second.
DecayTime(amount) == 50 + amount

\* Number.toFixed(1) of a decay: the nearest tenth of a second.
ToFixed1(decay) == (decay + 5) \div 10

CacheKeys(cache) == {cache[k].key : k \in 1 .. Len(cache)}

CacheGet(cache, key) ==
    cache[CHOOSE k \in 1 .. Len(cache) : cache[k].key = key].buffer

\* Map.set: an existing key keeps its place and gets the new value, a new
\* key is added at the end.
CacheSet(cache, key, buffer) ==
    IF key \in CacheKeys(cache)
    THEN [k \in 1 .. Len(cache) |->
            IF cache[k].key = key THEN [key |-> key, buffer |-> buffer] ELSE cache[k]]
    ELSE Append(cache, [key |-> key, buffer |-> buffer])

\* Variant: the entry added last is deleted instead of the first key.
EvictNewest(cache) ==
    IF Len(cache) > CacheCapacity THEN SubSeq(cache, 1, Len(cache) - 1) ELSE cache

\* The size test of reverbWorker.onmessage: beyond the capacity, the first
\* key of the map is deleted.
Evict(cache) == IF Len(cache) > CacheCapacity THEN Tail(cache) ELSE cache

TimerDue(rv) == \E tm \in rv.timers : tm.elapsed >= ReverbDebounce

\* Variant: an earlier timeout is left pending when a new one is set.
SetReverbTimeoutKeepsOld(rv, decayTime) ==
    LET id == FreshId({tm.id : tm \in rv.timers} \cup {rv.reverbSizeTimeout})
    IN [rv EXCEPT !.timers = @ \cup {[id |-> id, decay |-> decayTime, elapsed |-> 0]},
                  !.reverbSizeTimeout = id]

\* The debounce of setMasterReverbSize: clearTimeout of the stored handle,
\* then a new timeout whose callback posts decayTime to the worker.
SetReverbTimeout(rv, decayTime) ==
    LET kept == {tm \in rv.timers : tm.id # rv.reverbSizeTimeout}
        id == FreshId({tm.id : tm \in kept} \cup {rv.reverbSizeTimeout})
    IN [rv EXCEPT !.timers = kept \cup {[id |-> id, decay |-> decayTime, elapsed |-> 0]},
                  !.reverbSizeTimeout = id]

\* History: a cache-missing call continues the current burst when it comes
\* less than the debounce time after the previous one, else starts a burst.
NoteMiss(burst, decayTime) ==
    IF burst.calls > 0 /\ burst.idle < ReverbDebounce
    THEN [burst EXCEPT !.calls = @ + 1, !.decay = decayTime, !.idle = 0]
    ELSE [calls |-> 1, decay |-> decayTime, idle |-> 0, dispatched |-> 0]

\* An action of the master reverb: everything else stays.
ReverbStep(newReverb, op, arg) ==
    /\ reverb' = newReverb
    /\ last' = Label(op, -1, arg)
    /\ UNCHANGED <<tracks, recorderIsPlaying, now, input, export, wav, tape>>

\* Recorder.setMasterReverbSize(amount).  A callback that is due runs before
\* any later call.
SetMasterReverbSize(amount) ==
    LET decayTime == DecayTime(amount)
        cacheKey == ToFixed1(decayTime)
        sized == [reverb EXCEPT !.masterReverbSize = decayTime]
    IN /\ ~TimerDue(reverb)
       /\ IF cacheKey \in CacheKeys(reverb.cache)
          THEN ReverbStep([sized EXCEPT !.buffer = CacheGet(reverb.cache, cacheKey)],
                          "setMasterReverbSize", amount)
          ELSE /\ NoteMiss(reverb.burst, decayTime).calls <= MaxBurst
               /\ ReverbStep([SetReverbTimeout(sized, decayTime) EXCEPT
                                 !.burst = NoteMiss(reverb.burst, decayTime)],
                              "setMasterReverbSize", amount)

\* The timeout callback: the request is posted to the worker.
ReverbTimeout ==
    \E tm \in reverb.timers :
        /\ tm.elapsed >= ReverbDebounce
        /\ Len(reverb.inflight) < MaxInflight
        /\ ReverbStep([reverb EXCEPT !.timers = @ \ {tm},
                                     !.inflight = Append(@, tm.decay),
                                     !.burst.dispatched = IF @ < 2 THEN @ + 1 ELSE @],
                      "reverbTimeout", tm.decay)

\* reverbWorker.onmessage for the oldest unanswered request: the impulse is
\* installed and cached under its length.
WorkerResponse ==
    /\ reverb.inflight # << >>
    /\ LET length == Head(reverb.inflight)
           buffer == Impulse("worker", length, length)
           cacheKey == ToFixed1(length)
       IN ReverbStep([reverb EXCEPT !.inflight = Tail(@),
                                    !.buffer = buffer,
                                    !.cache = Evict(CacheSet(@, cacheKey, buffer))],
                     "workerResponse", length)

\* The granularity of the timer clock: half the debounce time.
TimeStep == ReverbDebounce \div 2

\* TimeStep milliseconds pass while a timeout is pending or a burst is open.
ReverbTick ==
    /\ ~TimerDue(reverb)
    /\ reverb.timers # {} \/ reverb.burst.idle < ReverbDebounce
    /\ ReverbStep([reverb EXCEPT
                      !.timers = {[tm EXCEPT !.elapsed = @ + TimeStep] : tm \in @},
                      !.burst.idle = IF @ < ReverbDebounce THEN @ + TimeStep ELSE @],
                  "reverbTick", 0)

\* ------------------------------------------------------ cassette tape bus
\* clearTimeout(this.dropoutSchedulerId) and the reset of the handle, as
\* setDropouts and setBypass(true) do when the handle is set.
ClearScheduler(tp) ==
    IF tp.dropoutSchedulerId # 0
    THEN [tp EXCEPT !.timers = {tm \in @ : tm.id # tp.dropoutSchedulerId},
                    !.dropoutSchedulerId = 0]
    ELSE tp

\* Variant: scheduleDropout without its test of this.bypassed.
ScheduleDropoutIgnoresBypass(tp) ==
    IF tp.dropoutIntensity <= 0 THEN tp
    ELSE LET baseInterval == 15000 - tp.dropoutIntensity * 120
             id == FreshId({tm.id : tm \in tp.timers} \cup {tp.dropoutSchedulerId})
         IN [tp EXCEPT !.timers = @ \cup {[id |-> id, interval |-> baseInterval]},
                       !.dropoutSchedulerId = id]

\* CassetteTapeBus.scheduleDropout: a new timeout, at least baseInterval
\* away, whose handle replaces the stored one.
ScheduleDropout(tp) ==
    IF tp.dropoutIntensity <= 0 \/ tp.bypassed THEN tp
    ELSE LET baseInterval == 15000 - tp.dropoutIntensity * 120
             id == FreshId({tm.id : tm \in tp.timers} \cup {tp.dropoutSchedulerId})
         IN [tp EXCEPT !.timers = @ \cup {[id |-> id, interval |-> baseInterval]},
                       !.dropoutSchedulerId = id]

\* CassetteTapeBus.triggerDropout: the depth of the gain dip in percent,
\* for random = 0 or 1; 0 when no dropout is triggered.
DropoutDepth(tp, random) ==
    IF tp.bypassed THEN 0 ELSE 10 + (random * 60 * tp.dropoutIntensity) \div 100

\* An action of the tape bus: everything else stays.
TapeStep(newTape, op, arg) ==
    /\ Cardinality(newTape.timers) <= MaxDropoutTimers
    /\ tape' = newTape
    /\ last' = Label(op, -1, arg)
    /\ UNCHANGED <<tracks, recorderIsPlaying, now, input, export, wav, reverb>>

\* CassetteTapeBus.setDropouts(value)
SetDropouts(value) ==
    TapeStep(ScheduleDropout(ClearScheduler([tape EXCEPT !.dropoutIntensity = value])),
             "setDropouts", value)

\* CassetteTapeBus.setBypass(bypassed)
SetBypass(bypassed) ==
    LET set == [tape EXCEPT !.bypassed = bypassed]
    IN TapeStep(IF bypassed
                THEN [ClearScheduler(set) EXCEPT !.wetGain = 0, !.bypassGain = 100]
                ELSE ScheduleDropout([set EXCEPT !.wetGain = 100, !.bypassGain = 0]),
                "setBypass", IF bypassed THEN 1 ELSE 0)

\* A dropout timeout runs: triggerDropout, then scheduleDropout.  The
\* argument recorded is the depth of the dropout, 0 when none was triggered.
DropoutTimeout(random) ==
    \E tm \in tape.timers :
        TapeStep(ScheduleDropout([tape EXCEPT !.timers = @ \ {tm}]),
                 "dropoutTimeout", DropoutDepth(tape, random))

\* Playback: the voices of the tracks of PlayTracks under every Track
\* operation that starts, stops or replaces a voice or installs a buffer.
Next ==
    \/ \E t \in PlayTracks : Play(t)
    \/ \E t \in PlayTracks : Stop(t)
    \/ \E t \in PlayTracks : Clear(t)
    \/ \E t \in PlayTracks, v \in DirectionValues : SetSpeed(t, v)
    \/ \E t \in PlayTracks, m \in Modes : SetMode(t, m)
    \/ \E t \in PlayTracks : StartRecording(t, TRUE)
    \/ \E t \in PlayTracks : StopRecording(t)
    \/ \E t \in PlayTracks : OnStop(t)
    \/ \E t \in PlayTracks, f \in Files : RecordingDecoded(t, f)
    \/ \E t \in PlayTracks : LoadFileToTrack(t)
    \/ \E t \in PlayTracks, f \in Files : LoadFileDecoded(t, f)
    \/ \E t \in PlayTracks : VoiceEnds(t)
    \/ \E t \in PlayTracks : OnEnded(t)

Spec == Init /\ [][Next]_vars

\* Loading and auto-play against the transport, the mute state and the clock.
NextLoad ==
    \/ \E t \in PlayTracks : Play(t)
    \/ \E t \in PlayTracks : Stop(t)
    \/ \E t \in PlayTracks : Clear(t)
    \/ \E t \in PlayTracks, m \in Modes : SetMode(t, m)
    \/ \E t \in PlayTracks, b \in BOOLEAN : SetMute(t, b)
    \/ \E t \in PlayTracks : LoadFileToTrack(t)
    \/ \E t \in PlayTracks, f \in Files : LoadFileDecoded(t, f)
    \/ \E t \in PlayTracks : LoadFileFailed(t)
    \/ \E t \in PlayTracks : VoiceEnds(t)
    \/ \E t \in PlayTracks : OnEnded(t)
    \/ RecorderPlay
    \/ RecorderStop
    \/ ClearAll
    \/ Tick

SpecLoad == Init /\ [][NextLoad]_vars

\* The speed control: both speed setters on stopped and playing tracks.
NextSpeed ==
    \/ \E t \in PlayTracks, v \in SpeedValues : SetSpeed(t, v)
    \/ \E t \in PlayTracks, v \in LegacyValues : SetSpeedLegacy(t, v)
    \/ \E t \in PlayTracks : Play(t)
    \/ \E t \in PlayTracks : Stop(t)
    \/ \E t \in PlayTracks : LoadFileToTrack(t)
    \/ \E t \in PlayTracks, f \in Files : LoadFileDecoded(t, f)
    \/ \E t \in PlayTracks : LoadFileFailed(t)

SpecSpeed == Init /\ [][NextSpeed]_vars

\* Recording and loading: everything that writes the two buffers.
NextRec ==
    \/ \E t \in PlayTracks, ok \in BOOLEAN : StartRecording(t, ok)
    \/ \E t \in PlayTracks : StopRecording(t)
    \/ \E t \in PlayTracks : OnStop(t)
    \/ \E t \in PlayTracks, f \in Files : RecordingDecoded(t, f)
    \/ \E t \in PlayTracks : RecordingDecodeFailed(t)
    \/ \E t \in PlayTracks : LoadFileToTrack(t)
    \/ \E t \in PlayTracks, f \in Files : LoadFileDecoded(t, f)
    \/ \E t \in PlayTracks : LoadFileFailed(t)
    \/ \E t \in PlayTracks : Clear(t)
    \/ \E t \in PlayTracks : Play(t)
    \/ \E t \in PlayTracks : Stop(t)

SpecRec == Init /\ [][NextRec]_vars

\* The browser delivers a queued stop event and every decode settles.
FairSpecRec ==
    /\ SpecRec
    /\ \A t \in PlayTracks :
         /\ WF_vars(OnStop(t))
         /\ WF_vars((\E f \in Files : RecordingDecoded(t, f)) \/ RecordingDecodeFailed(t))

\* Input selection and the record button, with overlapping selections.
NextSource ==
    \/ \E k \in SourceTypes : SetAudioSource(k)
    \/ SetupMicrophoneResolved
    \/ SetupMicrophoneFailed
    \/ SetupSystemAudioResolved
    \/ SetupSystemAudioFailed
    \/ SharingEnded
    \/ \E t \in PlayTracks, ok \in BOOLEAN : RecordTrack(t, ok)
    \/ \E t \in PlayTracks : OnStop(t)
    \/ \E t \in PlayTracks, f \in Files : RecordingDecoded(t, f)
    \/ \E t \in PlayTracks : RecordingDecodeFailed(t)

SpecSource == Init /\ [][NextSource]_vars

\* Export of a mix: tracks 0 and 1 each start empty or with one finished
\* recording, and are muted, unmuted and faded between exports.
ExportTracks == {0, 1}

ExportFaderValues == {0, 5}

Recorded(f) == [InstallBuffer(NewTrack, f) EXCEPT !.mediaRecorder = "inactive"]

InitExportMix ==
    /\ tracks \in {trks \in [Tracks -> {NewTrack} \cup {Recorded(f) : f \in Files}] :
                      \A t \in Tracks \ ExportTracks : trks[t] = NewTrack}
    /\ recorderIsPlaying = FALSE
    /\ now = 0
    /\ last = Label("init", -1, 0)
    /\ input = NewInput
    /\ export = NewExport
    /\ wav = NewWav
    /\ reverb = NewReverb
    /\ tape = NewTape

NextExportMix ==
    \/ ExportMix
    \/ MixRendered
    \/ ExportFailed
    \/ \E t \in ExportTracks, b \in BOOLEAN : SetMute(t, b)
    \/ \E t \in ExportTracks, v \in ExportFaderValues : SetFader(t, v)

SpecExportMix == InitExportMix /\ [][NextExportMix]_vars

\* Export against the transport and clear: the same initial tracks, played,
\* stopped and cleared between exports.
NextExport ==
    \/ ExportMix
    \/ MixRendered
    \/ ExportFailed
    \/ \E t \in ExportTracks : Clear(t)
    \/ \E t \in ExportTracks : OnEnded(t)
    \/ \E t \in PlayTracks, b \in BOOLEAN : SetMute(t, b)
    \/ RecorderPlay
    \/ RecorderStop

SpecExport == InitExportMix /\ [][NextExport]_vars

\* bufferToWav on every buffer of WavBuffers.
InitWav ==
    /\ tracks = [t \in Tracks |-> NewTrack]
    /\ recorderIsPlaying = FALSE
    /\ now = 0
    /\ last = Label("init", -1, 0)
    /\ input = NewInput
    /\ export = NewExport
    /\ wav \in [buffer : WavBuffers, bytes : {<< >>}]
    /\ reverb = NewReverb
    /\ tape = NewTape

NextWav == BufferToWavCall

SpecWav == InitWav /\ [][NextWav]_vars

\* The reverb size control: two sizes that share a cache key, the default
\* size and one more.
ReverbAmounts == {0, 4, 100, InitialReverbSize - 50}

NextReverb ==
    \/ \E a \in ReverbAmounts : SetMasterReverbSize(a)
    \/ ReverbTimeout
    \/ WorkerResponse
    \/ ReverbTick

SpecReverb == Init /\ [][NextReverb]_vars

\* Time passes, a due callback runs, and the worker answers.
FairSpecReverb ==
    /\ SpecReverb
    /\ WF_vars(ReverbTick)
    /\ WF_vars(ReverbTimeout)
    /\ WF_vars(WorkerResponse)

\* The impulse cache: five sizes whose keys differ from each other and from
\* the key of the default size.
CacheAmounts == {0, 100, 200, 300, 400}

NextCache ==
    \/ \E a \in CacheAmounts : SetMasterReverbSize(a)
    \/ ReverbTimeout
    \/ WorkerResponse
    \/ ReverbTick

SpecCache == Init /\ [][NextCache]_vars

\* The tape bus: the dropout control, the bypass switch and the timeouts.
DropoutValues == {0, 50, 100}

NextTape ==
    \/ \E v \in DropoutValues : SetDropouts(v)
    \/ \E b \in BOOLEAN : SetBypass(b)
    \/ \E r \in {0, 1} : DropoutTimeout(r)

SpecTape == Init /\ [][NextTape]_vars

\* The parameter setters against a voice: the track starts empty or with a
\* finished recording and is played, stopped and changed in speed while
\* its parameters are set.
ParamValues == {1}

InitParams ==
    /\ tracks \in {trks \in [Tracks -> {NewTrack} \cup {Recorded(f) : f \in Files}] :
                      \A t \in Tracks \ PlayTracks : trks[t] = NewTrack}
    /\ recorderIsPlaying = FALSE
    /\ now = 0
    /\ last = Label("init", -1, 0)
    /\ input = NewInput
    /\ export = NewExport
    /\ wav = NewWav
    /\ reverb = NewReverb
    /\ tape = NewTape

NextParams ==
    \/ \E t \in PlayTracks, v \in ParamValues : SetTrimGain(t, v)
    \/ \E t \in PlayTracks, v \in ParamValues : SetGainBoost(t, v)
    \/ \E t \in PlayTracks, v \in ParamValues : SetEQLow(t, v)
    \/ \E t \in PlayTracks, v \in ParamValues : SetEQMid(t, v)
    \/ \E t \in PlayTracks, v \in ParamValues : SetEQHigh(t, v)
    \/ \E t \in PlayTracks, v \in ParamValues : SetLA2APeakReduction(t, v)
    \/ \E t \in PlayTracks, v \in ParamValues : SetLA2AGain(t, v)
    \/ \E t \in PlayTracks, v \in ParamValues : SetReverbSend(t, v)
    \/ \E t \in PlayTracks, v \in ParamValues : SetFader(t, v)
    \/ \E t \in PlayTracks, b \in BOOLEAN : SetMute(t, b)
    \/ \E t \in PlayTracks, v \in DirectionValues : SetSpeed(t, v)
    \/ \E t \in PlayTracks : SetSpeedLegacy(t, RateUnit)
    \/ \E t \in PlayTracks : Play(t)
    \/ \E t \in PlayTracks : Stop(t)
    \/ \E t \in PlayTracks : OnEnded(t)

SpecParams == InitParams /\ [][NextParams]_vars

\* Two tracks side by side: one is loaded, played, stopped, cleared and
\* changed in speed and mode while the other records and is muted and faded.
LoadedTracks == {0}

RecordingTracks == {1}

NextTracks ==
    \/ \E t \in LoadedTracks : Play(t)
    \/ \E t \in LoadedTracks : Stop(t)
    \/ \E t \in LoadedTracks : Clear(t)
    \/ \E t \in LoadedTracks : SetSpeed(t, -100)
    \/ \E t \in LoadedTracks, m \in Modes : SetMode(t, m)
    \/ \E t \in LoadedTracks : LoadFileToTrack(t)
    \/ \E t \in LoadedTracks : LoadFileDecoded(t, NumFiles)
    \/ \E t \in LoadedTracks : OnEnded(t)
    \/ \E t \in RecordingTracks : StartRecording(t, TRUE)
    \/ \E t \in RecordingTracks : StopRecording(t)
    \/ \E t \in RecordingTracks : OnStop(t)
    \/ \E t \in RecordingTracks : RecordingDecoded(t, NumFiles)
    \/ \E t \in RecordingTracks, b \in BOOLEAN : SetMute(t, b)
    \/ \E t \in RecordingTracks, v \in ParamValues : SetFader(t, v)

SpecTracks == Init /\ [][NextTracks]_vars

\* The mixer: mute, fader and solo on all four tracks.
NextMix ==
    \/ \E t \in Tracks, b \in BOOLEAN : SetMute(t, b)
    \/ \E t \in Tracks, v \in FaderValues : SetFader(t, v)
    \/ \E t \in Tracks : HandleSolo(t)

SpecMix == Init /\ [][NextMix]_vars

\* ===================================================================
\* Properties
\* ===================================================================
\* Sample i of every channel of r is sample length-1-i of a (0-based), and
\* the two buffers have the same shape.
IsReversalOf(r, a) ==
    /\ NumberOfChannels(r) = NumberOfChannels(a)
    /\ BufferLength(r) = BufferLength(a)
    /\ \A c \in 1 .. NumberOfChannels(a) :
         \A i \in 0 .. (BufferLength(a) - 1) :
            r.data[c][i + 1] = a.data[c][(BufferLength(a) - 1 - i) + 1]

RateInRange(tr) ==
    /\ RateUnit <= Abs(tr.playbackRate)
    /\ Abs(tr.playbackRate) <= MaxRate * RateUnit

\* C1: a track never has more than one sounding voice.
C1_OneVoicePerTrack ==
    \A t \in Tracks : Cardinality(tracks[t].active) <= 1

\* A playing track was restarted by setMode: its earlier voice was stopped
\* (the 'ended' event is still queued) and exactly the new voice sounds.
C1_Witness ==
    /\ last.op = "setMode"
    /\ tracks[last.t].isPlaying
    /\ tracks[last.t].pendingEnded > 0
    /\ tracks[last.t].active = {tracks[last.t].source.vid}

\* C2: a playing track's voice plays the current reversedBuffer when
\* isReversed and the current audioBuffer otherwise.
C2_VoicePlaysCurrentBuffer ==
    \A t \in Tracks :
        tracks[t].isPlaying =>
            tracks[t].source.buffer =
                (IF tracks[t].isReversed THEN tracks[t].reversedBuffer.id
                 ELSE tracks[t].audioBuffer.id)

\* C3: reversedBuffer is present exactly when audioBuffer is, and is then
\* its sample-reversed copy of the same shape.
C3_ReversedInSync ==
    \A t \in Tracks :
        /\ (tracks[t].reversedBuffer = NoBuffer) <=> (tracks[t].audioBuffer = NoBuffer)
        /\ tracks[t].audioBuffer # NoBuffer =>
               IsReversalOf(tracks[t].reversedBuffer, tracks[t].audioBuffer)

\* A finished recording has just installed a stereo buffer.
C3_Witness ==
    /\ last.op = "recordingDecoded"
    /\ NumberOfChannels(tracks[last.t].audioBuffer) = 2
    /\ tracks[last.t].reversedBuffer.data # tracks[last.t].audioBuffer.data

C5_RateAlwaysInRange ==
    \A t \in Tracks : RateInRange(tracks[t])

\* C5 amended: the magnitude is in [1,4] initially and after every setSpeed,
\* and only setSpeedLegacy, which stores its argument as given, can move it
\* out of that range.
C5_RateInRangeUnlessLegacy ==
    /\ \A t \in Tracks : RateInRange(tracks[t])
    /\ [][\A t \in Tracks :
            /\ (last'.op = "setSpeed" /\ last'.t = t) => RateInRange(tracks'[t])
            /\ (last'.op = "setSpeedLegacy" /\ last'.t = t) =>
                   tracks'[t].playbackRate = last'.arg
            /\ (RateInRange(tracks[t])
                  /\ ~(last'.op = "setSpeedLegacy" /\ last'.t = t)) =>
                   RateInRange(tracks'[t])]_vars

\* setSpeed(50) on a playing track: rate 2.0 on the track and on its voice.
C5_Witness ==
    /\ last.op = "setSpeed"
    /\ last.arg = 50
    /\ tracks[last.t].isPlaying
    /\ tracks[last.t].playbackRate = 2 * RateUnit
    /\ tracks[last.t].source.rate = 2 * RateUnit

\* C6: play() on a track without a buffer or already playing changes nothing
\* of the track, and a track without a buffer is never playing.
C6_PlayNoOp ==
    /\ [](\A t \in Tracks : tracks[t].audioBuffer = NoBuffer => ~tracks[t].isPlaying)
    /\ [][\A t \in Tracks :
            (/\ last'.op = "play"
             /\ last'.t = t
             /\ (tracks[t].audioBuffer = NoBuffer \/ tracks[t].isPlaying))
            => tracks'[t] = tracks[t]]_vars

\* play() has just been called on a track that was cleared after a load.
C6_Witness ==
    /\ last.op = "play"
    /\ tracks[last.t].audioBuffer = NoBuffer
    /\ tracks[last.t].loopLength # InitLoopLength
    /\ ~tracks[last.t].isPlaying
    /\ tracks[last.t].active = {}

ClearedState(tr) ==
    /\ ~tr.isPlaying
    /\ tr.source = NoSource
    /\ tr.active = {}
    /\ tr.audioBuffer = NoBuffer
    /\ tr.reversedBuffer = NoBuffer

\* C7: after clear() the track is silent, holds no voice and no buffer, and
\* a stop() after a stop() or clear(), or a clear() after a clear(), changes
\* nothing.
C7_ClearAndStop ==
    /\ [](last.op = "clear" => ClearedState(tracks[last.t]))
    /\ [][\A t \in Tracks :
            /\ (/\ last.op \in {"stop", "clear"} /\ last.t = t
                /\ last'.op = "stop" /\ last'.t = t)
               => tracks'[t] = tracks[t]
            /\ (/\ last.op = "clear" /\ last.t = t
                /\ last'.op = "clear" /\ last'.t = t)
               => tracks'[t] = tracks[t]]_vars

\* clear() has just run on a track that had a buffer and a sounding voice.
C7_Witness ==
    /\ last.op = "clear"
    /\ tracks[last.t].loopLength # InitLoopLength
    /\ tracks[last.t].pendingEnded > 0
    /\ ClearedState(tracks[last.t])

\* C8: a muted track's fader gain is 0.
C8_MutedFaderZero ==
    \A t \in Tracks : tracks[t].isMuted => tracks[t].fader = 0

\* C9: once the recorder's stop event is queued, isRecording becomes false;
\* a successful decode leaves the decoded recording, its reversal and its
\* duration as loop length; stopRecording on a track that is not recording
\* changes nothing.
C9_RecordingCompletes ==
    /\ \A t \in Tracks : tracks[t].stopEvent ~> ~tracks[t].isRecording
    /\ [](last.op = "recordingDecoded" =>
            LET tr == tracks[last.t]
            IN /\ ~tr.isRecording
               /\ tr.audioBuffer.data = DecodeAudioData(last.arg)
               /\ IsReversalOf(tr.reversedBuffer, tr.audioBuffer)
               /\ tr.loopLength = FileLength(last.arg))
    /\ [][\A t \in Tracks :
            (last'.op = "stopRecording" /\ last'.t = t /\ ~tracks[t].isRecording)
            => tracks'[t] = tracks[t]]_vars

\* A recording has been decoded over an earlier buffer of another length.
C9_Witness ==
    /\ last.op = "recordingDecoded"
    /\ last.arg = 1
    /\ ~tracks[last.t].isRecording
    /\ tracks[last.t].mediaRecorder = "inactive"
    /\ tracks[last.t].loopLength = FileLength(1)
    /\ tracks[last.t].source.buffer \notin {0, tracks[last.t].audioBuffer.id,
                                           tracks[last.t].reversedBuffer.id}

\* C10: after a successful loadFileToTrack the track holds the decoded
\* buffer, its reversal, the buffer's duration as loop length, and isPlaying.
C10_LoadInstallsAndPlays ==
    last.op = "loadFileDecoded" =>
        LET tr == tracks[last.t]
        IN /\ tr.audioBuffer.data = DecodeAudioData(last.arg)
           /\ IsReversalOf(tr.reversedBuffer, tr.audioBuffer)
           /\ tr.loopLength = FileLength(last.arg)
           /\ tr.isPlaying

\* A load onto a muted track, with the transport stopped, has started a
\* voice on the new buffer.
C10_Witness ==
    /\ last.op = "loadFileDecoded"
    /\ tracks[last.t].isMuted
    /\ ~recorderIsPlaying
    /\ tracks[last.t].isPlaying
    /\ tracks[last.t].active = {tracks[last.t].source.vid}
    /\ tracks[last.t].source.buffer = tracks[last.t].audioBuffer.id

\* C11: a failed decode, of a loaded file or of a finished recording, leaves
\* audioBuffer, reversedBuffer, loopLength and isPlaying of the track as
\* they were, and starts no voice.
C11_DecodeFailureKeepsTrack ==
    [][\A t \in Tracks :
          (last'.op \in {"loadFileFailed", "recordingDecodeFailed"} /\ last'.t = t)
          => /\ tracks'[t].audioBuffer = tracks[t].audioBuffer
             /\ tracks'[t].reversedBuffer = tracks[t].reversedBuffer
             /\ tracks'[t].loopLength = tracks[t].loopLength
             /\ tracks'[t].isPlaying = tracks[t].isPlaying
             /\ tracks'[t].source = tracks[t].source
             /\ tracks'[t].active = tracks[t].active]_vars

\* A load has failed on a track that holds an earlier buffer and plays it.
C11_Witness ==
    /\ last.op = "loadFileFailed"
    /\ tracks[last.t].audioBuffer # NoBuffer
    /\ tracks[last.t].isPlaying
    /\ tracks[last.t].active = {tracks[last.t].source.vid}
    /\ tracks[last.t].loopLength = Duration(tracks[last.t].audioBuffer)

\* C12: when the acquisition of the requested input fails, the call ends with
\* audioSourceType 'none' and no stream held, no new request is issued, and
\* a recordTrack that follows starts no recording.
C12_FailedSourceHoldsNothing ==
    /\ [](last.op \in {"setupMicrophoneFailed", "setupSystemAudioFailed"} =>
            /\ input.audioSourceType = "none"
            /\ input.micStream = "null"
            /\ input.activeStream = "null")
    /\ [][/\ last'.op \in {"setupMicrophoneFailed", "setupSystemAudioFailed"} =>
               \A k \in {"microphone", "tab"} : input'.pending[k] <= input.pending[k]
          /\ (/\ last.op \in {"setupMicrophoneFailed", "setupSystemAudioFailed"}
              /\ last'.op = "recordTrack")
             => \A t \in Tracks :
                   /\ tracks'[t].isRecording = tracks[t].isRecording
                   /\ tracks'[t].mediaRecorder = tracks[t].mediaRecorder]_vars

\* C13: exportMix called while no track holds a buffer takes the error
\* path: no offline render is created, no file is produced, and every track
\* is as it was.
C13_ExportWithoutAudio ==
    [][(/\ last'.op \in {"exportMix", "exportMixNoAudio"}
        /\ \A t \in Tracks : tracks[t].audioBuffer = NoBuffer)
       => /\ last'.op = "exportMixNoAudio"
          /\ export'.rendering = export.rendering
          /\ export'.file = export.file
          /\ tracks' = tracks]_vars

\* exportMix has just failed for lack of audio, after an earlier export
\* produced a file and every buffer was cleared; a track is muted.
C13_Witness ==
    /\ last.op = "exportMixNoAudio"
    /\ \A t \in Tracks : tracks[t].audioBuffer = NoBuffer
    /\ export.file # << >>
    /\ export.rendering = << >>
    /\ \E t \in Tracks : tracks[t].isMuted

\* The job exportMix has just appended to the pending renders.
NewJob(exp) == exp.rendering[Len(exp.rendering)]

\* Sample i (1-based) of output channel c of a source: a mono buffer feeds
\* both channels, a source past its end is silent.
SourceSample(src, c, i) ==
    IF i > BufferLength(src.buffer) THEN 0
    ELSE src.gain * src.buffer.data[IF NumberOfChannels(src.buffer) = 1 THEN 1 ELSE c][i]

RECURSIVE SumOfSources(_, _, _)
SumOfSources(sources, c, i) ==
    IF sources = {} THEN 0
    ELSE LET src == CHOOSE x \in sources : TRUE
         IN SourceSample(src, c, i) + SumOfSources(sources \ {src}, c, i)

\* The sum, over the unmuted tracks t .. NumTracks-1 that hold a buffer, of
\* the track's samples scaled by its fader gain.
RECURSIVE UnmutedMix(_, _, _, _)
UnmutedMix(trks, t, c, i) ==
    IF t >= NumTracks THEN 0
    ELSE (IF trks[t].audioBuffer # NoBuffer /\ ~trks[t].isMuted
          THEN SourceSample([buffer |-> trks[t].audioBuffer, gain |-> trks[t].fader], c, i)
          ELSE 0)
         + UnmutedMix(trks, t + 1, c, i)

\* C14: the sources of an export's offline graph are exactly the tracks that
\* hold a buffer and are not muted, one source each, on the track's buffer at
\* the track's fader gain; their sum is the mix of the unmuted tracks.
C14_ExportRendersUnmuted ==
    [][last'.op = "exportMix" =>
         LET job == NewJob(export')
         IN /\ Len(export'.rendering) = Len(export.rendering) + 1
            /\ {src.track : src \in job.sources} =
                   {t \in Tracks : tracks[t].audioBuffer # NoBuffer /\ ~tracks[t].isMuted}
            /\ Cardinality(job.sources) = Cardinality({src.track : src \in job.sources})
            /\ \A src \in job.sources :
                   /\ src.buffer = tracks[src.track].audioBuffer
                   /\ src.gain = tracks[src.track].fader
            /\ job.frames = MaxDuration(tracks) * ExportSampleRate
            /\ \A c \in 1 .. ExportChannels, i \in 1 .. MaxDuration(tracks) :
                   SumOfSources(job.sources, c, i) = UnmutedMix(tracks, 0, c, i)]_vars

\* An export has just been started with two recorded tracks, one muted: the
\* graph holds the other track alone, at its fader gain 0.5.
C14_Witness ==
    /\ last.op = "exportMix"
    /\ export.rendering # << >>
    /\ \A t \in ExportTracks : tracks[t].audioBuffer # NoBuffer
    /\ \E t \in ExportTracks : tracks[t].isMuted
    /\ \E src \in NewJob(export).sources :
          /\ NewJob(export).sources = {src}
          /\ ~tracks[src.track].isMuted
          /\ src.gain = 5

\* Readers of the little-endian fields at a 0-based byte offset.
ReadUint32(bytes, offset) ==
    bytes[offset + 1] + 256 * bytes[offset + 2] + 65536 * bytes[offset + 3]
        + 16777216 * bytes[offset + 4]

ReadUint16(bytes, offset) == bytes[offset + 1] + 256 * bytes[offset + 2]

ReadInt16(bytes, offset) ==
    IF ReadUint16(bytes, offset) >= 32768
    THEN ReadUint16(bytes, offset) - 65536
    ELSE ReadUint16(bytes, offset)

\* The 16-bit value of a sample: full scale outside [-1,1], else the sample
\* times 32767 with the fraction dropped.
ExpectedPcm(sample) ==
    IF sample >= SampleUnit THEN Int16Max
    ELSE IF sample <= -SampleUnit THEN -Int16Max
    ELSE TruncDiv(sample * Int16Max, SampleUnit)

\* C15: for a buffer of F frames, C channels and rate R, bufferToWav returns
\* 44 + F*C*2 bytes; the header declares chunk size 36 + F*C*2, PCM, C, R,
\* byte rate R*C*2, block align C*2, 16 bits and data length F*C*2; every
\* written sample is the clamped sample scaled by 32767, within 16 bits.
C15_WavLayout ==
    last.op = "bufferToWav" =>
        LET F == BufferLength(wav.buffer)
            C == NumberOfChannels(wav.buffer)
            R == wav.buffer.sampleRate
            bytes == wav.bytes
        IN /\ Len(bytes) = 44 + F * C * 2
           /\ \A k \in 1 .. Len(bytes) : bytes[k] \in 0 .. 255
           /\ ReadUint32(bytes, 4) = 36 + F * C * 2
           /\ ReadUint16(bytes, 20) = 1
           /\ ReadUint16(bytes, 22) = C
           /\ ReadUint32(bytes, 24) = R
           /\ ReadUint32(bytes, 28) = R * C * 2
           /\ ReadUint16(bytes, 32) = C * 2
           /\ ReadUint16(bytes, 34) = 16
           /\ ReadUint32(bytes, 40) = F * C * 2
           /\ \A i \in 0 .. (F - 1), channel \in 0 .. (C - 1) :
                  LET value == ReadInt16(bytes, 44 + 2 * (i * C + channel))
                  IN /\ value = ExpectedPcm(wav.buffer.data[channel + 1][i + 1])
                     /\ -Int16Max <= value
                     /\ value <= Int16Max

\* A stereo buffer of two frames with samples above 1, below -1 and inside
\* the range has been encoded into 52 bytes.
C15_Witness ==
    /\ last.op = "bufferToWav"
    /\ NumberOfChannels(wav.buffer) = 2
    /\ BufferLength(wav.buffer) = 2
    /\ wav.buffer.sampleRate = ExportSampleRate
    /\ wav.buffer.data = << <<3, -1>>, <<-4, 1>> >>
    /\ Len(wav.bytes) = 52
    /\ ReadInt16(wav.bytes, 44) = Int16Max
    /\ ReadInt16(wav.bytes, 46) = -Int16Max
    /\ ReadInt16(wav.bytes, 48) = -16383

\* C16: the impulse cache never holds more than 5 entries, and a response
\* with a new key arriving at a full cache removes the entry inserted
\* earliest and keeps the others in their order, the new one last.
C16_CacheBounded ==
    /\ [](Len(reverb.cache) <= CacheCapacity)
    /\ [][(/\ last'.op = "workerResponse"
           /\ Len(reverb.cache) = CacheCapacity
           /\ ToFixed1(last'.arg) \notin CacheKeys(reverb.cache))
          => /\ Len(reverb'.cache) = CacheCapacity
             /\ SubSeq(reverb'.cache, 1, CacheCapacity - 1) = Tail(reverb.cache)
             /\ reverb'.cache[CacheCapacity].key = ToFixed1(last'.arg)]_vars

\* A response has just been cached at a full cache: the entry of the default
\* size, inserted first, is gone and the new key is last.
C16_Witness ==
    /\ last.op = "workerResponse"
    /\ Len(reverb.cache) = CacheCapacity
    /\ ToFixed1(InitialReverbSize) \notin CacheKeys(reverb.cache)
    /\ reverb.cache[CacheCapacity].key = ToFixed1(last.arg)
    /\ reverb.buffer = reverb.cache[CacheCapacity].buffer

\* C17: a burst of cache-missing setMasterReverbSize calls, each less than
\* 500 ms after the one before, leads to exactly one request to the worker:
\* it is posted once 500 ms have passed since the last call of the burst
\* and carries that call's decay.
C17_DebouncedDispatch ==
    /\ [](reverb.burst.dispatched <= 1)
    /\ [][last'.op = "reverbTimeout" =>
             /\ reverb.burst.calls > 0
             /\ reverb.burst.idle >= ReverbDebounce
             /\ reverb'.inflight = Append(reverb.inflight, reverb.burst.decay)]_vars
    /\ [][(/\ last'.op = "setMasterReverbSize"
           /\ reverb.burst.calls > 0
           /\ reverb.burst.idle >= ReverbDebounce
           /\ reverb'.burst.idle = 0)
          => reverb.burst.dispatched = 1]_vars
    /\ (reverb.burst.calls > 0 /\ reverb.burst.dispatched = 0)
          ~> (reverb.burst.dispatched = 1)

\* The request of a burst of MaxBurst calls has just been posted.
C17_Witness ==
    /\ last.op = "reverbTimeout"
    /\ reverb.burst.calls = MaxBurst
    /\ reverb.burst.dispatched = 1
    /\ reverb.burst.decay = last.arg
    /\ reverb.inflight # << >>
    /\ reverb.inflight[Len(reverb.inflight)] = last.arg
    /\ reverb.timers = {}

\* C18: a setMasterReverbSize call made while a debounced request is
\* pending supersedes it, on a cache hit as on a miss: no timeout that was
\* pending before the call is pending after it.
C18_PendingRequestSuperseded ==
    [][last'.op = "setMasterReverbSize" =>
         \A tm \in reverb.timers : tm \notin reverb'.timers]_vars

\* C19: no dropout is triggered while the dropout intensity is 0.
C19_NoDropoutAtZero ==
    (last.op = "dropoutTimeout" /\ last.arg > 0) => tape.dropoutIntensity > 0

\* C20: while the unit is bypassed no dropout is triggered, no dropout
\* timeout is created, the wet target is 0 and the dry target 1; leaving
\* bypass creates a timeout exactly when the intensity is above 0.
C20_BypassPausesDropouts ==
    /\ [](tape.bypassed => tape.wetGain = 0 /\ tape.bypassGain = 100)
    /\ [][(tape.bypassed /\ tape'.bypassed)
          => /\ {tm.id : tm \in tape'.timers} \subseteq {tm.id : tm \in tape.timers}
             /\ last'.op = "dropoutTimeout" => last'.arg = 0]_vars
    /\ [][(tape.bypassed /\ ~tape'.bypassed)
          => /\ last'.op = "setBypass"
             /\ (tape.dropoutIntensity > 0) <=>
                   (\E tm \in tape'.timers :
                       /\ tm \notin tape.timers
                       /\ tm.id = tape'.dropoutSchedulerId)]_vars

\* setDropouts was called with a positive value during bypass: the intensity
\* is stored, no timeout is pending, the signal runs dry.
C20_Witness ==
    /\ last.op = "setDropouts"
    /\ last.arg > 0
    /\ tape.bypassed
    /\ tape.dropoutIntensity = last.arg
    /\ tape.timers = {}
    /\ tape.wetGain = 0
    /\ tape.bypassGain = 100

\* C21: setMute(false) leaves the fader gain at 0.8 and the track unmuted,
\* whatever the fader gain was before the call.
C21_UnmuteSetsFixedLevel ==
    [][\A t \in Tracks :
          (last'.op = "setMute" /\ last'.arg = 0 /\ last'.t = t)
          => /\ tracks'[t].fader = UnmutedGain
             /\ ~tracks'[t].isMuted]_vars

\* A muted track has just been unmuted: its gain is 0.8, which no setFader
\* of the model had set.
C21_Witness ==
    /\ last.op = "setMute"
    /\ last.arg = 0
    /\ ~tracks[last.t].isMuted
    /\ tracks[last.t].fader = UnmutedGain
    /\ UnmutedGain \notin FaderValues

\* The call that ran last engaged the only solo: no track was soloed before.
FirstSoloEngaged ==
    /\ last.op = "handleSolo"
    /\ \A t \in Tracks : tracks[t].isSolo <=> (t = last.t)

\* C22: when the track soloed alone is un-soloed by the next call, every
\* track's isMuted flag is what it was before the solo was engaged, and a
\* track that was not muted then is audible again.
C22_SoloRoundTrip ==
    [][(FirstSoloEngaged /\ last'.op = "handleSolo" /\ last'.t = last.t)
       => \A t \in Tracks :
             /\ tracks'[t].isMuted <=> MutedBit(last.arg, t)
             /\ ~MutedBit(last.arg, t) => tracks'[t].fader > 0]_vars

\* C30: after a handleSolo call that leaves a track soloed, every track that
\* is not soloed has fader gain 0 and every soloed track is unmuted with a
\* fader gain above 0.
C30_SoloIsolates ==
    (last.op = "handleSolo" /\ \E t \in Tracks : tracks[t].isSolo)
    => \A t \in Tracks :
          IF tracks[t].isSolo
          THEN ~tracks[t].isMuted /\ tracks[t].fader > 0
          ELSE tracks[t].fader = 0

\* C23: after Recorder.stop() no track is playing and no voice sounds.
C23_StopSilencesAll ==
    last.op = "recorderStop" =>
        \A t \in Tracks : ~tracks[t].isPlaying /\ tracks[t].active = {}

\* C24: a setSpeed call that changes the direction of a playing track stops
\* its voice and leaves exactly one new voice, on the buffer of the new
\* direction, started at the current time; the track is still playing.
C24_DirectionChangeRestarts ==
    [][\A t \in Tracks :
          (/\ last'.op = "setSpeed"
           /\ last'.t = t
           /\ tracks[t].isPlaying
           /\ tracks'[t].isReversed # tracks[t].isReversed)
          => /\ tracks'[t].isPlaying
             /\ tracks'[t].active = {tracks'[t].source.vid}
             /\ tracks'[t].source.buffer =
                   (IF tracks'[t].isReversed THEN tracks'[t].reversedBuffer.id
                    ELSE tracks'[t].audioBuffer.id)
             /\ tracks'[t].startTime = now
             /\ tracks[t].source.vid \in tracks[t].active
                   => tracks'[t].pendingEnded = tracks[t].pendingEnded + 1]_vars

ParameterSetters ==
    {"setTrimGain", "setGainBoost", "setFader", "setEQLow", "setEQMid", "setEQHigh",
     "setLA2APeakReduction", "setLA2AGain", "setReverbSend", "setMute"}

\* C25: a parameter setter, or a setSpeed call that keeps the direction,
\* leaves isPlaying, the voice, its buffer and startTime as they were, and
\* stops and starts nothing.
C25_SettersKeepVoice ==
    [][\A t \in Tracks :
          (/\ last'.t = t
           /\ \/ last'.op \in ParameterSetters
              \/ /\ last'.op = "setSpeed"
                 /\ tracks'[t].isReversed = tracks[t].isReversed)
          => /\ tracks'[t].isPlaying = tracks[t].isPlaying
             /\ tracks'[t].source.vid = tracks[t].source.vid
             /\ tracks'[t].source.buffer = tracks[t].source.buffer
             /\ tracks'[t].active = tracks[t].active
             /\ tracks'[t].pendingEnded = tracks[t].pendingEnded
             /\ tracks'[t].startTime = tracks[t].startTime]_vars

\* The operations of one track, with the continuations of its recordings,
\* loads and voices.
TrackOperations ==
    {"play", "stop", "clear", "startRecording", "stopRecording", "onstop",
     "recordingDecoded", "recordingDecodeFailed", "setSpeed", "setSpeedLegacy",
     "setMode", "setMute", "setFader", "loadFileToTrack", "loadFileDecoded",
     "loadFileFailed", "voiceEnds", "onended"}

\* C26: an operation on one track leaves every field of the other three
\* tracks as it was.
C26_TracksIndependent ==
    [][\A t \in Tracks :
          (last'.op \in TrackOperations /\ last'.t = t)
          => \A u \in Tracks \ {t} : tracks'[u] = tracks[u]]_vars

\* A file has just been loaded onto track 0 and plays while track 1, muted
\* and holding an earlier take, is recording.
C26_Witness ==
    /\ last.op = "loadFileDecoded"
    /\ last.t = 0
    /\ tracks[0].isPlaying
    /\ tracks[1].isRecording
    /\ tracks[1].mediaRecorder = "recording"
    /\ tracks[1].audioBuffer # NoBuffer
    /\ tracks[1].isMuted
    /\ ~tracks[1].isPlaying

\* C27: with no debounce timeout pending and no request unanswered, the
\* impulse on the convolver is the one for the decay key of the size set last.
C27_QuiescentImpulseIsLatest ==
    (reverb.timers = {} /\ reverb.inflight = << >>)
    => ToFixed1(reverb.buffer.decay) = ToFixed1(reverb.masterReverbSize)

\* C28: isPlaying is never false while a voice of the track is sounding.
C28_PlayingWhileSounding ==
    \A t \in Tracks : tracks[t].active # {} => tracks[t].isPlaying

\* C29: at most one dropout timeout is pending, and it is the one whose
\* handle is stored in dropoutSchedulerId.
C29_OneDropoutTimer ==
    /\ Cardinality(tape.timers) <= 1
    /\ \A tm \in tape.timers : tm.id = tape.dropoutSchedulerId

====
